---------------------------- MODULE Spec2Model ----------------------------
(***************************************************************************)
(* A model of the x402 payment-retry handler                               *)
(* (src/app/api/agent/x402-action-provider.ts, X402ActionProvider).        *)
(*                                                                         *)
(* One invocation of payForApi is a process that runs from one await to    *)
(* the next: every action below is the code between two suspension points, *)
(* together with the way the awaited promise settled.  The environment     *)
(* (the HTTP server, the wallet, the chain) chooses how each promise       *)
(* settles.  Every call the handler makes on the outside world, and every  *)
(* settlement it observes, is appended to log[i].                          *)
(*                                                                         *)
(* Spec is one invocation, through either action of the provider, over the *)
(* full sets of arguments and answers; FairSpec adds that every awaited    *)
(* promise settles; TwoSpec is two invocations on one provider over        *)
(* subsets of the arguments and answers; EncodeSpec applies                *)
(* encodeERC20Transfer on its own; AppSpec is the agent route: two POST    *)
(* requests on one process, createAgent and the wallet bootstrap.          *)
(*                                                                         *)
(* JavaScript strings are TLA+ strings.  The three pictographs the source  *)
(* puts in front of its result texts cannot be written in a TLA+ string    *)
(* and are written "[OK]", "[X]" and "[!]".                                 *)
(***************************************************************************)
EXTENDS Integers, Sequences, FiniteSets, TLC

VARIABLES
    network,            \* walletProvider.getNetwork().networkId
    facilitatorBaseUrl, \* X402ActionProvider.facilitatorBaseUrl
    pc,                 \* pc[i]: the await invocation i is suspended at
    action,             \* action[i]: the action invoked, and its arguments
    args,               \* args[i]: the argument record of invocation i
    initialResponse,    \* const initialResponse
    paymentInfo,        \* const paymentInfo (the parsed 402 body)
    paymentTx,          \* const paymentTx
    finalResponse,      \* const finalResponse
    result,             \* the string the invocation returned
    log,                \* calls made and settlements seen, in order
    processEnv,         \* process.env: OPENAI_API_KEY and PRIVATE_KEY
    walletData,         \* the file wallet_data.txt
    agent,              \* let agent (create-agent.ts)
    messages,           \* const messages (route.ts)
    post,               \* post[q]: the POST request q and where it stands
    accounts,           \* the keys privateKeyToAccount was given
    written             \* the keys writeFileSync put into wallet_data.txt

\* the state of the x402 handler
handlerVars ==
    << network, facilitatorBaseUrl, pc, action, args, initialResponse,
       paymentInfo, paymentTx, finalResponse, result, log >>

\* the state of the chat route, of createAgent and of the wallet bootstrap
appVars ==
    << processEnv, walletData, agent, messages, post, accounts, written >>

vars == << network, facilitatorBaseUrl, pc, action, args, initialResponse,
           paymentInfo, paymentTx, finalResponse, result, log, appVars >>

(***************************************************************************)
(* JavaScript values: undefined and strings.                               *)
(***************************************************************************)
Undef == [t |-> "undefined", s |-> ""]

Str(s) == [t |-> "string", s |-> s]

\* ToBoolean of a value: undefined, null and "" are falsy
Truthy(v) == v.t = "string" /\ v.s # ""

\* a || b
OrElse(a, b) == IF Truthy(a) THEN a ELSE b

(***************************************************************************)
(* String helpers (String.prototype.slice, padStart, includes).            *)
(***************************************************************************)
RECURSIVE Repeat(_, _)
Repeat(c, n) == IF n <= 0 THEN "" ELSE c \o Repeat(c, n - 1)

\* s.slice(k)
SliceFrom(s, k) == IF k >= Len(s) THEN "" ELSE SubSeq(s, k + 1, Len(s))

\* s.padStart(n, c) for a one-character c
PadStart(s, n, c) == IF Len(s) >= n THEN s ELSE Repeat(c, n - Len(s)) \o s

\* s.startsWith(t)
StartsWith(s, t) == Len(s) >= Len(t) /\ SubSeq(s, 1, Len(t)) = t

\* s.includes(t)
Includes(s, t) ==
    \E k \in 1..(Len(s) - Len(t) + 1) : SubSeq(s, k, k + Len(t) - 1) = t

\* s.charAt(k - 1): "" outside the string
CharAt(s, k) == IF k \in 1..Len(s) THEN SubSeq(s, k, k) ELSE ""

\* s.slice(0, n)
Prefix(s, n) == IF Len(s) <= n THEN s ELSE SubSeq(s, 1, n)


(***************************************************************************)
(* BigInt(value) and BigInt.prototype.toString(16), on digit strings: a    *)
(* BigInt is kept as its sign and its hexadecimal digits, so no machine    *)
(* integer bounds the amounts.                                             *)
(***************************************************************************)
DigitValue(c) ==
    CASE c = "0" -> 0 [] c = "1" -> 1 [] c = "2" -> 2 [] c = "3" -> 3
      [] c = "4" -> 4 [] c = "5" -> 5 [] c = "6" -> 6 [] c = "7" -> 7
      [] c = "8" -> 8 [] c = "9" -> 9
      [] c \in {"a", "A"} -> 10 [] c \in {"b", "B"} -> 11
      [] c \in {"c", "C"} -> 12 [] c \in {"d", "D"} -> 13
      [] c \in {"e", "E"} -> 14 [] c \in {"f", "F"} -> 15
      [] OTHER -> 99

HexChar(n) == CharAt("0123456789abcdef", n + 1)

IsNumeral(s, radix) ==
    /\ Len(s) > 0
    /\ \A k \in 1..Len(s) : DigitValue(CharAt(s, k)) < radix

\* A numeral is cut into groups of digits, each group one digit of a larger
\* base that still fits the 32-bit integers of TLC: GroupLen(radix)
\* digits to a group, GroupBase(radix) = radix ^ GroupLen(radix).
GroupLen(radix) == CASE radix = 10 -> 4 [] radix = 16 -> 3
                     [] radix = 8 -> 4 [] radix = 2 -> 13

GroupBase(radix) == CASE radix = 10 -> 10000 [] radix = 16 -> 4096
                      [] radix = 8 -> 4096 [] radix = 2 -> 8192

\* the value of a group of digits
RECURSIVE GroupValue(_, _)
GroupValue(s, radix) ==
    IF s = "" THEN 0
    ELSE GroupValue(SubSeq(s, 1, Len(s) - 1), radix) * radix
           + DigitValue(CharAt(s, Len(s)))

\* the groups of s, most significant first
Groups(s, radix) ==
    LET g      == GroupLen(radix)
        n      == (Len(s) + g - 1) \div g
        padded == PadStart(s, n * g, "0")
    IN  [j \in 1..n |->
            GroupValue(SubSeq(padded, (j - 1) * g + 1, j * g), radix)]

\* long division of the first k groups by 16^4: <<quotient, remainder>>
RECURSIVE DivMod(_, _, _)
DivMod(gs, base, k) ==
    IF k = 0 THEN << << >>, 0 >>
    ELSE LET prev == DivMod(gs, base, k - 1)
             cur  == prev[2] * base + gs[k]
         IN  << Append(prev[1], cur \div 65536), cur % 65536 >>

\* the four hexadecimal digits of n < 16^4
Hex4(n) ==
    HexChar(n \div 4096) \o HexChar((n \div 256) % 16)
      \o HexChar((n \div 16) % 16) \o HexChar(n % 16)

RECURSIVE StripZeros(_)
StripZeros(s) ==
    IF Len(s) > 0 /\ CharAt(s, 1) = "0" THEN StripZeros(SliceFrom(s, 1)) ELSE s

\* the hexadecimal digits of the number the groups gs stand for, four at a time
RECURSIVE HexGroups(_, _)
HexGroups(gs, base) ==
    IF \A k \in 1..Len(gs) : gs[k] = 0 THEN ""
    ELSE LET qr == DivMod(gs, base, Len(gs))
         IN  HexGroups(qr[1], base) \o Hex4(qr[2])

\* the hexadecimal digits of a radix-r numeral, without leading zeros ("" for 0)
HexOf(s, radix) == StripZeros(HexGroups(Groups(s, radix), GroupBase(radix)))

\* a magnitude that went through a Number: of a value of more than 52 bits
\* only the leading 13 hexadecimal digits survive
MagnitudeOfNumber(s, radix) ==
    LET h == HexOf(s, radix)
    IN  IF h = "" THEN "0"
        ELSE IF Len(h) <= 13 THEN h
        ELSE Prefix(h, 13) \o Repeat("0", Len(h) - 13)

\* StringToBigInt, after the sign and the radix prefix were taken off
Magnitude(s, radix) ==
    LET h == HexOf(s, radix) IN IF h = "" THEN "0" ELSE h

BigIntThrow(msg) == [threw |-> TRUE, neg |-> FALSE, hex |-> "", message |-> msg]

BigIntOf(neg, hex) ==
    [threw |-> FALSE, neg |-> neg /\ hex # "0", hex |-> hex, message |-> ""]

RECURSIVE TrimLeft(_)
TrimLeft(s) ==
    IF Len(s) > 0 /\ CharAt(s, 1) = " " THEN TrimLeft(SliceFrom(s, 1)) ELSE s

RECURSIVE TrimRight(_)
TrimRight(s) ==
    IF Len(s) > 0 /\ CharAt(s, Len(s)) = " "
    THEN TrimRight(SubSeq(s, 1, Len(s) - 1)) ELSE s

\* BigInt(v): a TypeError for undefined and null, a SyntaxError for a string
\* that is no integer literal; "" is 0n; a sign is allowed before decimal
\* digits only
BigInt(v) ==
    IF v.t # "string"
    THEN BigIntThrow("Cannot convert " \o v.t \o " to a BigInt")
    ELSE LET s    == TrimRight(TrimLeft(v.s))
             pre  == Prefix(s, 2)
             rest == SliceFrom(s, 2)
             sign == CharAt(s, 1)
         IN  CASE s = "" -> BigIntOf(FALSE, "0")
               [] pre \in {"0x", "0X"} /\ IsNumeral(rest, 16) ->
                      BigIntOf(FALSE, Magnitude(rest, 16))
               [] pre \in {"0o", "0O"} /\ IsNumeral(rest, 8) ->
                      BigIntOf(FALSE, Magnitude(rest, 8))
               [] pre \in {"0b", "0B"} /\ IsNumeral(rest, 2) ->
                      BigIntOf(FALSE, Magnitude(rest, 2))
               [] IsNumeral(s, 10) -> BigIntOf(FALSE, Magnitude(s, 10))
               [] sign \in {"+", "-"} /\ IsNumeral(SliceFrom(s, 1), 10) ->
                      BigIntOf(sign = "-", Magnitude(SliceFrom(s, 1), 10))
               [] OTHER -> BigIntThrow("Cannot convert " \o v.s \o " to a BigInt")

\* amountBigInt.toString(16)
BigIntToString16(b) == (IF b.neg THEN "-" ELSE "") \o b.hex

(***************************************************************************)
(* encodeERC20Transfer(to, amount): the call data of transfer(to, amount), *)
(* or the exception it throws.                                             *)
(***************************************************************************)
Thrown(msg) == [threw |-> TRUE, value |-> "", message |-> msg]

Returned(s) == [threw |-> FALSE, value |-> s, message |-> ""]

transferSignature == "0xa9059cbb"

\* an encoder that puts defaults in the place of missing fields
encodeERC20TransferWithDefaults(to, amount) ==
    LET paddedAddress == PadStart(SliceFrom(OrElse(to, Str("0x")).s, 2), 64, "0")
        amountBigInt  == BigInt(OrElse(amount, Str("0")))
        paddedAmount  == PadStart(BigIntToString16(amountBigInt), 64, "0")
    IN  IF amountBigInt.threw
        THEN Thrown(amountBigInt.message)
        ELSE Returned(transferSignature \o paddedAddress \o paddedAmount)

encodeERC20Transfer(to, amount) ==
    IF to.t # "string"
    THEN Thrown("Cannot read properties of " \o to.t \o " (reading 'slice')")
    ELSE LET paddedAddress == PadStart(SliceFrom(to.s, 2), 64, "0")
             amountBigInt  == BigInt(amount)
             paddedAmount  == PadStart(BigIntToString16(amountBigInt), 64, "0")
         IN  IF amountBigInt.threw
             THEN Thrown(amountBigInt.message)
             ELSE Returned(transferSignature \o paddedAddress \o paddedAmount)

(***************************************************************************)
(* The inputs of an invocation and the answers of the environment.         *)
(***************************************************************************)
\* the invocations made on the provider
Procs == DOMAIN pc

\* the network ids a wallet can report: the two supported ones and another
Networks == {"base-mainnet", "base-sepolia", "ethereum-mainnet"}

\* process.env.X402_FACILITATOR_URL
FacilitatorEnv == {Undef, Str("https://facilitator.example/x402")}

\* constructor(): this.facilitatorBaseUrl
Constructor(env) == OrElse(env, Str("https://api.cdp.coinbase.com/x402/v1")).s

\* an optional header record: absent, or an object of string properties
NoHeaders == [given |-> FALSE, map |-> << >>]

SomeHeaders(map) == [given |-> TRUE, map |-> map]

ProofHeader == "X-402-Payment-Proof"

\* the argument records of X402PaymentSchema the model draws from
ArgSets ==
    [ url     : {"https://api.example/data"},
      method  : {Undef, Str("POST")},
      body    : {Undef, Str("payload")},
      headers : { NoHeaders,
                  SomeHeaders("Authorization" :> "Bearer k"),
                  SomeHeaders("Content-Type" :> "text/plain"),
                  SomeHeaders(ProofHeader :> "forged") } ]

\* 402 bodies: well-formed instructions, instructions with a field missing,
\* JSON that is no object, and text that is no JSON
BodyFull == "{\"amount\":\"1000000\",\"recipient\":\"0x1111111111111111111111111111111111111111\"}"

BodyToken == "{\"amount\":\"1000000\",\"recipient\":\"0x1111111111111111111111111111111111111111\",\"token\":\"0x2222222222222222222222222222222222222222\"}"

BodyFacilitator == "{\"amount\":\"1000000\",\"recipient\":\"0x1111111111111111111111111111111111111111\",\"facilitator\":\"https://pay.example/x402\"}"

\* a body whose token is its recipient
BodyTokenIsRecipient == "{\"amount\":\"1000000\",\"recipient\":\"0x1111111111111111111111111111111111111111\",\"token\":\"0x1111111111111111111111111111111111111111\"}"

\* bodies whose amount is negative, or is 2^256, and a body whose recipient has
\* 33 bytes
BodyNegativeAmount == "{\"amount\":\"-5\",\"recipient\":\"0x1111111111111111111111111111111111111111\"}"

BodyHugeAmount == "{\"amount\":\"115792089237316195423570985008687907853269984665640564039457584007913129639936\",\"recipient\":\"0x1111111111111111111111111111111111111111\"}"

BodyLongRecipient == "{\"amount\":\"1000000\",\"recipient\":\"0xababababababababababababababababababababababababababababababababab\"}"

BodyNoAmount == "{\"recipient\":\"0x1111111111111111111111111111111111111111\"}"

BodyNoRecipient == "{\"amount\":\"1000000\"}"

BodyEmptyObject == "{}"

BodyNull == "null"

BodyNumber == "5"

BodyHtml == "<html>Payment Required</html>"

PaymentBodies == { BodyFull, BodyToken, BodyFacilitator, BodyTokenIsRecipient,
                   BodyNegativeAmount, BodyHugeAmount, BodyLongRecipient,
                   BodyNoAmount,
                   BodyNoRecipient, BodyEmptyObject, BodyNull, BodyNumber,
                   BodyHtml }

\* a response: its status, its body text, and whether the body can be read
\* to its end (text() and json() reject when it cannot)
NoResponse == [status |-> 0, body |-> "", readable |-> FALSE]

InitialResponses ==
    [status : {200, 500}, body : {"resource", BodyFull}, readable : BOOLEAN]
      \cup [status : {402}, body : PaymentBodies, readable : {TRUE}]
      \cup [status : {402}, body : {BodyFull}, readable : {FALSE}]

FinalResponses ==
    [status : {200, 402, 500}, body : {"resource"}, readable : BOOLEAN]

\* the transaction hashes sendTransaction can return
Hashes == {"0xabc1", "0xdef2"}

\* the messages of the errors the environment can throw
FetchErrors == {"fetch failed"}

SendErrors == {"insufficient funds for gas"}

ReceiptErrors(hash) ==
    { "request timed out",
      "Timed out while waiting for transaction with hash " \o hash }

BodyReadError == "terminated"

(***************************************************************************)
(* JSON.parse on the bodies above, and JSON.stringify on a payment proof.  *)
(***************************************************************************)
JsonObject(amount, recipient, token, facilitator) ==
    [ isNull |-> FALSE, amount |-> amount, recipient |-> recipient,
      token |-> token, facilitator |-> facilitator ]

JsonNull ==
    [ isNull |-> TRUE, amount |-> Undef, recipient |-> Undef,
      token |-> Undef, facilitator |-> Undef ]

Parsed(v) == [threw |-> FALSE, value |-> v, message |-> ""]

ParseError(msg) == [threw |-> TRUE, value |-> JsonNull, message |-> msg]

Recipient1 == Str("0x1111111111111111111111111111111111111111")

JSONparse(text) ==
    CASE text = BodyFull ->
             Parsed(JsonObject(Str("1000000"), Recipient1, Undef, Undef))
      [] text = BodyToken ->
             Parsed(JsonObject(Str("1000000"), Recipient1,
                               Str("0x2222222222222222222222222222222222222222"),
                               Undef))
      [] text = BodyFacilitator ->
             Parsed(JsonObject(Str("1000000"), Recipient1, Undef,
                               Str("https://pay.example/x402")))
      [] text = BodyTokenIsRecipient ->
             Parsed(JsonObject(Str("1000000"), Recipient1, Recipient1, Undef))
      [] text = BodyNegativeAmount ->
             Parsed(JsonObject(Str("-5"), Recipient1, Undef, Undef))
      [] text = BodyHugeAmount ->
             Parsed(JsonObject(
                 Str("115792089237316195423570985008687907853269984665640564039457584007913129639936"),
                 Recipient1, Undef, Undef))
      [] text = BodyLongRecipient ->
             Parsed(JsonObject(
                 Str("1000000"),
                 Str("0xababababababababababababababababababababababababababababababababab"),
                 Undef, Undef))
      [] text = BodyNoAmount ->
             Parsed(JsonObject(Undef, Recipient1, Undef, Undef))
      [] text = BodyNoRecipient ->
             Parsed(JsonObject(Str("1000000"), Undef, Undef, Undef))
      [] text = BodyEmptyObject ->
             Parsed(JsonObject(Undef, Undef, Undef, Undef))
      [] text = BodyNumber ->
             \* the properties of a number read as undefined
             Parsed(JsonObject(Undef, Undef, Undef, Undef))
      [] text = BodyNull -> Parsed(JsonNull)
      [] OTHER -> ParseError("Unexpected token in JSON at position 0")

\* JSON.stringify({transactionHash, facilitator})
JSONstringify(proof) ==
    "{\"transactionHash\":\"" \o proof.transactionHash
      \o "\",\"facilitator\":\"" \o proof.facilitator \o "\"}"

(***************************************************************************)
(* The pieces of payForApi.                                                *)
(***************************************************************************)
\* a network check that lets every mainnet through
supportsNetworkAnyMainnet(networkId) ==
    Includes(networkId, "mainnet") \/ networkId = "base-sepolia"

\* supportsNetwork(network)
supportsNetwork(networkId) ==
    networkId = "base-mainnet" \/ networkId = "base-sepolia"

\* a status check that takes every error status for a payment request
PaymentRequiredOnAnyError(status) == status >= 400

\* initialResponse.status === 402
PaymentRequired(status) == status = 402

\* response.ok
Ok(status) == status >= 200 /\ status <= 299

\* { ...a, ...b }: the properties of a, overridden and extended by those of b
Spread(a, b) ==
    [k \in DOMAIN a \cup DOMAIN b |-> IF k \in DOMAIN b THEN b[k] ELSE a[k]]

\* const { url, method = "GET", body, headers = {} } = args
MethodOf(a) == IF a.method = Undef THEN "GET" ELSE a.method.s

HeadersOf(a) == IF a.headers.given THEN a.headers.map ELSE << >>

\* the init of the first fetch
InitialRequest(a) ==
    [ url     |-> a.url,
      method  |-> MethodOf(a),
      headers |-> Spread("Content-Type" :> "application/json", HeadersOf(a)),
      body    |-> a.body ]

\* const usdcContract
usdcContract(networkId) ==
    IF networkId = "base-mainnet"
    THEN "0x833589fCD6eDb6E08f4c7C32D4f71b54bdA02913"
    ELSE "0x036CbD53842c5426634e7929541eC2318f3dCF7e"

\* a transaction that is sent to the recipient of the 402 body
PaymentTransactionToRecipient(info, networkId, data) ==
    [ to    |-> info.recipient.s,
      value |-> 0,
      data  |-> data ]

\* the argument of walletProvider.sendTransaction
PaymentTransaction(info, networkId, data) ==
    [ to    |-> OrElse(info.token, Str(usdcContract(networkId))).s,
      value |-> 0,
      data  |-> data ]

\* const paymentProof
PaymentProof(tx, info, base) ==
    [ transactionHash |-> tx,
      facilitator     |-> OrElse(info.facilitator, Str(base)).s ]

\* a second fetch that is rebuilt from the url and the proof alone, without
\* the method, the body and the headers of the caller
RetryRequestRebuilt(a, proof) ==
    [ url     |-> a.url,
      method  |-> "GET",
      headers |-> Spread("Content-Type" :> "application/json",
                         ProofHeader :> JSONstringify(proof)),
      body    |-> Undef ]

\* the init of the second fetch
RetryRequest(a, proof) ==
    [ url     |-> a.url,
      method  |-> MethodOf(a),
      headers |-> Spread(Spread("Content-Type" :> "application/json",
                                ProofHeader :> JSONstringify(proof)),
                         HeadersOf(a)),
      body    |-> a.body ]

\* an unsupported-network text that leaves the network out
UnsupportedNetworkTextNoId(networkId) ==
    "Error: x402 payments are currently only supported on Base network (base-mainnet or base-sepolia)."

\* the texts payForApi returns
UnsupportedNetworkText(networkId) ==
    "Error: x402 payments are currently only supported on Base network (base-mainnet or base-sepolia). Current network: "
      \o networkId

PaymentSuccessText(tx, data) ==
    "[OK] Payment successful! Transaction: " \o tx \o "\nResponse: " \o data

PaymentSentText(tx, status, data) ==
    "[!] Payment sent but request failed. Transaction: " \o tx
      \o "\nStatus: " \o ToString(status) \o "\nResponse: " \o data

PaymentFailedText(message) == "[X] Payment failed: " \o message

NoPaymentText(data) ==
    "[OK] Request successful (no payment required):\n" \o data

RequestFailedText(status, data) ==
    "[X] Request failed with status " \o ToString(status) \o ": " \o data

RequestErrorText(message) == "[X] Error making x402 request: " \o message

(***************************************************************************)
(* The state machine.                                                      *)
(***************************************************************************)
\* wallet_data.txt does not exist
NoFile == [exists |-> FALSE, text |-> ""]

\* let agent: not assigned yet
NoAgent == [set |-> FALSE, by |-> 0, key |-> ""]

\* the chat route has served no request and no wallet was prepared
AppIdle ==
    /\ processEnv = [OPENAI_API_KEY |-> Undef, PRIVATE_KEY |-> Undef]
    /\ walletData = NoFile
    /\ agent = NoAgent
    /\ messages = << >>
    /\ post = << >>
    /\ accounts = {}
    /\ written = {}

\* no action was invoked yet
NoAction == [name |-> "", args |-> CHOOSE a \in ArgSets : TRUE]

\* the invocations of procs have not been made yet
Idle(procs) ==
    /\ pc = [i \in procs |-> "idle"]
    /\ action = [i \in procs |-> NoAction]
    /\ args = [i \in procs |-> CHOOSE a \in ArgSets : TRUE]
    /\ initialResponse = [i \in procs |-> NoResponse]
    /\ paymentInfo = [i \in procs |-> JsonNull]
    /\ paymentTx = [i \in procs |-> ""]
    /\ finalResponse = [i \in procs |-> NoResponse]
    /\ result = [i \in procs |-> ""]
    /\ log = [i \in procs |-> << >>]

\* a provider after its construction, a wallet, and one invocation to come
Init ==
    /\ network \in Networks
    /\ facilitatorBaseUrl \in {Constructor(env) : env \in FacilitatorEnv}
    /\ Idle({1})
    /\ AppIdle

\* invocation i appends events to its log
Logged(i, events) == log' = [log EXCEPT ![i] = log[i] \o events]

\* invocation i returns text
Return(i, text) ==
    /\ result' = [result EXCEPT ![i] = text]
    /\ pc' = [pc EXCEPT ![i] = "done"]

\* the lines of the two try blocks of payForApi
OuterTry == 97..177

InnerTry == 124..166

\* a handler whose outer try block ends before the 402 branch
ThrowPastOuterTry(i, line, message) ==
    IF line \in InnerTry
    THEN Return(i, PaymentFailedText(message))
    ELSE IF line \in 97..110
    THEN Return(i, RequestErrorText(message))
    ELSE /\ pc' = [pc EXCEPT ![i] = "threw"]
         /\ UNCHANGED result

\* an Error with this message is thrown at this line of invocation i: the
\* innermost catch around the line returns its text; outside every try block
\* the promise of the invocation rejects
Throw(i, line, message) ==
    IF line \in InnerTry
    THEN Return(i, PaymentFailedText(message))
    ELSE IF line \in OuterTry
    THEN Return(i, RequestErrorText(message))
    ELSE /\ pc' = [pc EXCEPT ![i] = "threw"]
         /\ UNCHANGED result

\* payForApi(walletProvider, a) runs to its first fetch
payForApi(i, a) ==
    /\ pc[i] = "idle"
    /\ args' = [args EXCEPT ![i] = a]
    /\ Logged(i, << [op |-> "fetch", req |-> InitialRequest(a)] >>)
    /\ pc' = [pc EXCEPT ![i] = "fetch1"]
    /\ UNCHANGED << appVars, network, facilitatorBaseUrl, initialResponse,
                    paymentInfo, paymentTx, finalResponse, result >>

\* the action x402_pay_for_api is invoked with the arguments a
Call(i) ==
    \E a \in ArgSets :
        /\ action' = [action EXCEPT ![i] =
                          [name |-> "x402_pay_for_api", args |-> a]]
        /\ payForApi(i, a)

\* a request method that passes on the url alone
requestUrlOnly(i) ==
    \E a \in ArgSets :
        /\ action' = [action EXCEPT ![i] =
                          [name |-> "x402_request", args |-> a]]
        /\ payForApi(i, [a EXCEPT !.method = Undef, !.body = Undef,
                                  !.headers = NoHeaders])

\* the action x402_request is invoked with the arguments a:
\* request(walletProvider, a) returns this.payForApi(walletProvider, a)
request(i) ==
    \E a \in ArgSets :
        /\ action' = [action EXCEPT ![i] =
                          [name |-> "x402_request", args |-> a]]
        /\ payForApi(i, a)

\* the first fetch rejects: the outer catch
InitialFetchRejects(i) ==
    /\ pc[i] = "fetch1"
    /\ \E m \in FetchErrors :
         /\ Logged(i, << [op |-> "fetch.throw", message |-> m] >>)
         /\ Throw(i, 101, m)
    /\ UNCHANGED << appVars, action, network, facilitatorBaseUrl, args, initialResponse,
                    paymentInfo, paymentTx, finalResponse >>

\* the first fetch resolves: the status decides which body reader is awaited
InitialFetchResolves(i) ==
    /\ pc[i] = "fetch1"
    /\ \E r \in InitialResponses :
         /\ initialResponse' = [initialResponse EXCEPT ![i] = r]
         /\ Logged(i, << [op |-> "fetch.return", resp |-> r] >>)
         /\ pc' = [pc EXCEPT ![i] =
                      IF PaymentRequired(r.status) THEN "json" ELSE "text1"]
    /\ UNCHANGED << appVars, action, network, facilitatorBaseUrl, args, paymentInfo, paymentTx,
                    finalResponse, result >>

\* initialResponse.text() settles on the path without payment
InitialTextSettles(i) ==
    /\ pc[i] = "text1"
    /\ LET r == initialResponse[i]
       IN  IF ~r.readable
           THEN Throw(i, IF Ok(r.status) THEN 171 ELSE 175, BodyReadError)
           ELSE Return(i, IF Ok(r.status) THEN NoPaymentText(r.body)
                          ELSE RequestFailedText(r.status, r.body))
    /\ UNCHANGED << appVars, action, network, facilitatorBaseUrl, args, initialResponse,
                    paymentInfo, paymentTx, finalResponse, log >>

\* initialResponse.json() rejects, or the destructuring of its value throws:
\* the outer catch
JsonRejects(i) ==
    /\ pc[i] = "json"
    /\ LET r == initialResponse[i]
           p == JSONparse(r.body)
       IN  \/ ~r.readable /\ Throw(i, 112, BodyReadError)
           \/ r.readable /\ p.threw /\ Throw(i, 112, p.message)
           \/ /\ r.readable /\ ~p.threw /\ p.value.isNull
              /\ Throw(i, 115,
                     "Cannot destructure property 'amount' of 'paymentInfo' as it is null.")
    /\ UNCHANGED << appVars, action, network, facilitatorBaseUrl, args, initialResponse,
                    paymentInfo, paymentTx, finalResponse, log >>

\* initialResponse.json() resolves with an object: the network check, the
\* encoding and the call of sendTransaction
JsonResolves(i) ==
    /\ pc[i] = "json"
    /\ initialResponse[i].readable
    /\ LET p    == JSONparse(initialResponse[i].body)
           info == p.value
           data == encodeERC20Transfer(info.recipient, info.amount)
       IN  /\ ~p.threw /\ ~info.isNull
           /\ paymentInfo' = [paymentInfo EXCEPT ![i] = info]
           /\ IF ~supportsNetwork(network)
              THEN /\ Logged(i, << [op |-> "getNetwork"] >>)
                   /\ Return(i, UnsupportedNetworkText(network))
              ELSE IF data.threw
              THEN /\ Logged(i, << [op |-> "getNetwork"] >>)
                   /\ Throw(i, 138, data.message)
              ELSE /\ Logged(i, << [op |-> "getNetwork"],
                                   [op |-> "sendTransaction",
                                    tx |-> PaymentTransaction(info, network,
                                                              data.value)] >>)
                   /\ pc' = [pc EXCEPT ![i] = "send"]
                   /\ UNCHANGED result
    /\ UNCHANGED << appVars, action, network, facilitatorBaseUrl, args, initialResponse,
                    paymentTx, finalResponse >>

\* sendTransaction rejects: the inner catch
SendTransactionRejects(i) ==
    /\ pc[i] = "send"
    /\ \E m \in SendErrors :
         /\ Logged(i, << [op |-> "sendTransaction.throw", message |-> m] >>)
         /\ Throw(i, 135, m)
    /\ UNCHANGED << appVars, action, network, facilitatorBaseUrl, args, initialResponse,
                    paymentInfo, paymentTx, finalResponse >>

\* sendTransaction resolves with a hash: the wait for its receipt starts
SendTransactionResolves(i) ==
    /\ pc[i] = "send"
    /\ \E h \in Hashes :
         /\ paymentTx' = [paymentTx EXCEPT ![i] = h]
         /\ Logged(i, << [op |-> "sendTransaction.return", hash |-> h],
                         [op |-> "waitForTransactionReceipt", hash |-> h] >>)
    /\ pc' = [pc EXCEPT ![i] = "receipt"]
    /\ UNCHANGED << appVars, action, network, facilitatorBaseUrl, args, initialResponse,
                    paymentInfo, finalResponse, result >>

\* a handler that goes on to the second fetch when the wait for the receipt
\* rejects
ReceiptRejectsIgnored(i) ==
    /\ pc[i] = "receipt"
    /\ \E m \in ReceiptErrors(paymentTx[i]) :
         Logged(i, << [op |-> "waitForTransactionReceipt.throw",
                       message |-> m],
                      [op |-> "fetch",
                       req |-> RetryRequest(args[i],
                                   PaymentProof(paymentTx[i], paymentInfo[i],
                                                facilitatorBaseUrl))] >>)
    /\ pc' = [pc EXCEPT ![i] = "fetch2"]
    /\ UNCHANGED << appVars, action, network, facilitatorBaseUrl, args, initialResponse,
                    paymentInfo, paymentTx, finalResponse, result >>

\* a handler that gives up the wait for the receipt after a time of its own
ReceiptRejectsOnTimeout(i) ==
    /\ pc[i] = "receipt"
    /\ Return(i, PaymentFailedText("Timed out waiting for the receipt"))
    /\ UNCHANGED << appVars, action, network, facilitatorBaseUrl, args, initialResponse,
                    paymentInfo, paymentTx, finalResponse, log >>

\* waitForTransactionReceipt rejects: the inner catch
ReceiptRejects(i) ==
    /\ pc[i] = "receipt"
    /\ \E m \in ReceiptErrors(paymentTx[i]) :
         /\ Logged(i, << [op |-> "waitForTransactionReceipt.throw",
                          message |-> m] >>)
         /\ Throw(i, 142, m)
    /\ UNCHANGED << appVars, action, network, facilitatorBaseUrl, args, initialResponse,
                    paymentInfo, paymentTx, finalResponse >>

\* a provider that keeps the hash of the payment in a field of the instance:
\* the proof of an invocation is built from the hash of the last invocation
\* that has one
ReceiptResolvesSharedHash(i) ==
    /\ pc[i] = "receipt"
    /\ LET last == CHOOSE j \in Procs :
                       /\ paymentTx[j] # ""
                       /\ \A k \in Procs : paymentTx[k] # "" => k <= j
           paymentProof ==
               PaymentProof(paymentTx[last], paymentInfo[i],
                            facilitatorBaseUrl)
       IN  Logged(i, << [op |-> "waitForTransactionReceipt.return",
                         hash |-> paymentTx[i]],
                        [op |-> "fetch",
                         req |-> RetryRequest(args[i], paymentProof)] >>)
    /\ pc' = [pc EXCEPT ![i] = "fetch2"]
    /\ UNCHANGED << appVars, action, network, facilitatorBaseUrl, args, initialResponse,
                    paymentInfo, paymentTx, finalResponse, result >>

\* waitForTransactionReceipt resolves: the proof is built and the request
\* is issued again
ReceiptResolves(i) ==
    /\ pc[i] = "receipt"
    /\ LET paymentProof ==
               PaymentProof(paymentTx[i], paymentInfo[i], facilitatorBaseUrl)
       IN  Logged(i, << [op |-> "waitForTransactionReceipt.return",
                         hash |-> paymentTx[i]],
                        [op |-> "fetch",
                         req |-> RetryRequest(args[i], paymentProof)] >>)
    /\ pc' = [pc EXCEPT ![i] = "fetch2"]
    /\ UNCHANGED << appVars, action, network, facilitatorBaseUrl, args, initialResponse,
                    paymentInfo, paymentTx, finalResponse, result >>

\* the second fetch rejects: the inner catch
FinalFetchRejects(i) ==
    /\ pc[i] = "fetch2"
    /\ \E m \in FetchErrors :
         /\ Logged(i, << [op |-> "fetch.throw", message |-> m] >>)
         /\ Throw(i, 150, m)
    /\ UNCHANGED << appVars, action, network, facilitatorBaseUrl, args, initialResponse,
                    paymentInfo, paymentTx, finalResponse >>

\* a handler that pays again when the second fetch is answered with 402
FinalFetchResolvesPaysAgain(i) ==
    /\ pc[i] = "fetch2"
    /\ \E r \in FinalResponses :
         /\ finalResponse' = [finalResponse EXCEPT ![i] = r]
         /\ IF PaymentRequired(r.status)
            THEN /\ Logged(i, << [op |-> "fetch.return", resp |-> r],
                                 [op |-> "sendTransaction",
                                  tx |-> PaymentTransaction(paymentInfo[i], network,
                                             encodeERC20Transfer(
                                                 paymentInfo[i].recipient,
                                                 paymentInfo[i].amount).value)] >>)
                 /\ pc' = [pc EXCEPT ![i] = "send"]
            ELSE /\ Logged(i, << [op |-> "fetch.return", resp |-> r] >>)
                 /\ pc' = [pc EXCEPT ![i] = "text2"]
    /\ UNCHANGED << appVars, action, network, facilitatorBaseUrl, args, initialResponse,
                    paymentInfo, paymentTx, result >>

\* the second fetch resolves: finalResponse.text() is awaited on both branches
FinalFetchResolves(i) ==
    /\ pc[i] = "fetch2"
    /\ \E r \in FinalResponses :
         /\ finalResponse' = [finalResponse EXCEPT ![i] = r]
         /\ Logged(i, << [op |-> "fetch.return", resp |-> r] >>)
    /\ pc' = [pc EXCEPT ![i] = "text2"]
    /\ UNCHANGED << appVars, action, network, facilitatorBaseUrl, args, initialResponse,
                    paymentInfo, paymentTx, result >>

\* a handler that reports the status of the first response after the payment
FinalTextSettlesInitialStatus(i) ==
    /\ pc[i] = "text2"
    /\ LET r == finalResponse[i]
       IN  Return(i, IF ~r.readable THEN PaymentFailedText(BodyReadError)
                     ELSE IF Ok(r.status)
                     THEN PaymentSuccessText(paymentTx[i], r.body)
                     ELSE PaymentSentText(paymentTx[i],
                                          initialResponse[i].status, r.body))
    /\ UNCHANGED << appVars, action, network, facilitatorBaseUrl, args, initialResponse,
                    paymentInfo, paymentTx, finalResponse, log >>

\* a handler that returns the body of the first response after the payment
FinalTextSettlesInitialBody(i) ==
    /\ pc[i] = "text2"
    /\ LET r == finalResponse[i]
       IN  Return(i, IF ~r.readable THEN PaymentFailedText(BodyReadError)
                     ELSE IF Ok(r.status)
                     THEN PaymentSuccessText(paymentTx[i],
                                             initialResponse[i].body)
                     ELSE PaymentSentText(paymentTx[i], r.status, r.body))
    /\ UNCHANGED << appVars, action, network, facilitatorBaseUrl, args, initialResponse,
                    paymentInfo, paymentTx, finalResponse, log >>

\* finalResponse.text() settles
FinalTextSettles(i) ==
    /\ pc[i] = "text2"
    /\ LET r == finalResponse[i]
       IN  IF ~r.readable
           THEN Throw(i, IF Ok(r.status) THEN 161 ELSE 164, BodyReadError)
           ELSE Return(i, IF Ok(r.status)
                          THEN PaymentSuccessText(paymentTx[i], r.body)
                          ELSE PaymentSentText(paymentTx[i], r.status,
                                               r.body))
    /\ UNCHANGED << appVars, action, network, facilitatorBaseUrl, args, initialResponse,
                    paymentInfo, paymentTx, finalResponse, log >>

Next ==
    \E i \in Procs :
        \/ Call(i)
        \/ request(i)
        \/ InitialFetchRejects(i)
        \/ InitialFetchResolves(i)
        \/ InitialTextSettles(i)
        \/ JsonRejects(i)
        \/ JsonResolves(i)
        \/ SendTransactionRejects(i)
        \/ SendTransactionResolves(i)
        \/ ReceiptRejects(i)
        \/ ReceiptResolves(i)
        \/ FinalFetchRejects(i)
        \/ FinalFetchResolves(i)
        \/ FinalTextSettles(i)

Spec == Init /\ [][Next]_vars

\* an external call of invocation i, or the reading of a body, settles; the
\* one settlement that is not listed is that of JsonResolves(i)
Settle(i) ==
    \/ InitialFetchRejects(i)
    \/ InitialFetchResolves(i)
    \/ InitialTextSettles(i)
    \/ JsonRejects(i)
    \/ SendTransactionRejects(i)
    \/ SendTransactionResolves(i)
    \/ ReceiptRejects(i)
    \/ ReceiptResolves(i)
    \/ FinalFetchRejects(i)
    \/ FinalFetchResolves(i)
    \/ FinalTextSettles(i)

\* the states in which JsonResolves(i) can be taken
JsonResolvesEnabled(i) ==
    /\ pc[i] = "json"
    /\ initialResponse[i].readable
    /\ ~JSONparse(initialResponse[i].body).threw
    /\ ~JSONparse(initialResponse[i].body).value.isNull

\* every call the invocation awaits returns or throws in the end, and the
\* continuation of the await then runs: weak fairness of each settlement,
\* that of JsonResolves(i) written out with its enabling condition
FairSpec ==
    /\ Spec
    /\ \A i \in {1} :
         /\ WF_vars(Settle(i))
         /\ \/ []<>~JsonResolvesEnabled(i)
            \/ []<><<JsonResolves(i)>>_vars

(***************************************************************************)
(* encodeERC20Transfer on its own: the recipient and the amount are drawn  *)
(* from the sets below and the function is applied to them.                *)
(***************************************************************************)
\* 0x-prefixed addresses of 20 bytes
EncodeRecipients ==
    { "0x1111111111111111111111111111111111111111",
      "0x0000000000000000000000000000000000000000",
      "0xffffffffffffffffffffffffffffffffffffffff",
      "0xFFFFFFFFFFFFFFFFFFFFFFFFFFFFFFFFFFFFFFFF",
      "0x833589fCD6eDb6E08f4c7C32D4f71b54bdA02913",
      "0x036CbD53842c5426634e7929541eC2318f3dCF7e",
      "0x0000000000000000000000000000000000000001",
      "0xdeadbeef000000000000000000000000cafebabe" }

\* base-10 numerals of integers from 0 to 2^256 - 1
EncodeAmounts ==
    { "0",
      "1",
      "15",
      "16",
      "255",
      "1000000",
      "007",
      "9007199254740992",
      "9007199254740993",
      "18446744073709551616",
      "1000000000000000000000000000",
      "340282366920938463463374607431768211457",
      "57896044618658097711785492504343953926634992332820282019728792003956564819968",
      "115792089237316195423570985008687907853269984665640564039457584007913129639935" }

EncodeInit ==
    /\ network = "base-sepolia"
    /\ facilitatorBaseUrl = Constructor(Undef)
    /\ pc = [i \in {1} |-> "idle"]
    /\ action = [i \in {1} |-> NoAction]
    /\ args = [i \in {1} |-> CHOOSE a \in ArgSets : TRUE]
    /\ initialResponse = [i \in {1} |-> NoResponse]
    /\ \E to \in EncodeRecipients, amount \in EncodeAmounts :
         paymentInfo = [i \in {1} |->
                           JsonObject(Str(amount), Str(to), Undef, Undef)]
    /\ paymentTx = [i \in {1} |-> ""]
    /\ finalResponse = [i \in {1} |-> NoResponse]
    /\ result = [i \in {1} |-> ""]
    /\ log = [i \in {1} |-> << >>]
    /\ AppIdle

\* encodeERC20Transfer(to, amount) is called outside every try block
Encode(i) ==
    /\ pc[i] = "idle"
    /\ LET data == encodeERC20Transfer(paymentInfo[i].recipient,
                                       paymentInfo[i].amount)
       IN  IF data.threw THEN Throw(i, 221, data.message)
           ELSE Return(i, data.value)
    /\ UNCHANGED << appVars, action, network, facilitatorBaseUrl, args, initialResponse,
                    paymentInfo, paymentTx, finalResponse, log >>

EncodeNext == \E i \in Procs : Encode(i)

EncodeSpec == EncodeInit /\ [][EncodeNext]_vars

(***************************************************************************)
(* Two invocations on one provider and one wallet, in any interleaving.    *)
(* The arguments and the answers of the environment are taken from the     *)
(* subsets below.                                                          *)
(***************************************************************************)
TwoArgs ==
    { [ url |-> "https://api.example/data", method |-> Undef,
        body |-> Undef, headers |-> NoHeaders ],
      [ url |-> "https://api.example/data", method |-> Str("POST"),
        body |-> Str("payload"),
        headers |-> SomeHeaders("Authorization" :> "Bearer k") ] }

TwoInitialResponses ==
    { [status |-> 200, body |-> "resource", readable |-> TRUE],
      [status |-> 402, body |-> BodyFull, readable |-> TRUE],
      [status |-> 402, body |-> BodyHtml, readable |-> TRUE] }

TwoFinalResponses ==
    [status : {200, 500}, body : {"resource"}, readable : {TRUE}]

\* the arguments and the answers seen so far are of the subsets
TwoScope ==
    \A i \in Procs :
        /\ action[i].name # "" => action[i].args \in TwoArgs
        /\ \A k \in 1..Len(log[i]) :
             LET e == log[i][k]
             IN  /\ (e.op = "fetch.return" /\ k = 2) =>
                       e.resp \in TwoInitialResponses
                 /\ (e.op = "fetch.return" /\ k > 2) =>
                       e.resp \in TwoFinalResponses
                 /\ e.op = "waitForTransactionReceipt.throw" =>
                       e.message = "request timed out"

TwoInit ==
    /\ network \in {"base-sepolia", "ethereum-mainnet"}
    /\ facilitatorBaseUrl = Constructor(Undef)
    /\ Idle({1, 2})
    /\ AppIdle

TwoNext == Next /\ TwoScope'

TwoSpec == TwoInit /\ [][TwoNext]_vars

(***************************************************************************)
(* The chat route (route.ts), createAgent (create-agent.ts) and            *)
(* prepareAgentkitAndWalletProvider (prepare-agentkit.ts).  A POST request *)
(* runs from one await to the next; what lies between two awaits is one    *)
(* action, for the event loop runs it without interruption.                *)
(***************************************************************************)
\* the requests the route serves
Reqs == DOMAIN post

\* the keys generatePrivateKey() can return
GeneratedKeys ==
    { "0xa1a1a1a1a1a1a1a1a1a1a1a1a1a1a1a1a1a1a1a1a1a1a1a1a1a1a1a1a1a1a1a1",
      "0xb2b2b2b2b2b2b2b2b2b2b2b2b2b2b2b2b2b2b2b2b2b2b2b2b2b2b2b2b2b2b2b2" }

\* process.env.PRIVATE_KEY: unset, empty, with and without the prefix 0x
PrivateKeyEnv ==
    { Undef, Str(""),
      Str("0xc3c3c3c3c3c3c3c3c3c3c3c3c3c3c3c3c3c3c3c3c3c3c3c3c3c3c3c3c3c3c3c3"),
      Str("c3c3c3c3c3c3c3c3c3c3c3c3c3c3c3c3c3c3c3c3c3c3c3c3c3c3c3c3c3c3c3c3") }

\* process.env.OPENAI_API_KEY
OpenAiEnv == { Undef, Str("sk-test") }

\* JSON.stringify({ privateKey })
StringifyWalletData(privateKey) == "{\"privateKey\":\"" \o privateKey \o "\"}"

\* wallet_data.txt with this text
File(text) == [exists |-> TRUE, text |-> text]

\* wallet_data.txt as a start of the process can find it: absent, written by
\* an earlier run, with a key that lacks the prefix, without key, no JSON
WalletFiles ==
    { NoFile,
      File(StringifyWalletData(
          "0xd4d4d4d4d4d4d4d4d4d4d4d4d4d4d4d4d4d4d4d4d4d4d4d4d4d4d4d4d4d4d4d4")),
      File(StringifyWalletData(
          "d4d4d4d4d4d4d4d4d4d4d4d4d4d4d4d4d4d4d4d4d4d4d4d4d4d4d4d4d4d4d4d4")),
      File("{}"),
      File("") }

\* JSON.parse(text).privateKey for the texts above: the string between
\* {"privateKey":" and "}, undefined for {}, a SyntaxError otherwise
ParseWalletData(text) ==
    LET open == "{\"privateKey\":\""
        shut == "\"}"
        n    == Len(text)
    IN  IF text = "{}"
        THEN [threw |-> FALSE, privateKey |-> Undef]
        ELSE IF /\ n >= Len(open) + Len(shut)
                /\ StartsWith(text, open)
                /\ SliceFrom(text, n - Len(shut)) = shut
        THEN [threw |-> FALSE,
              privateKey |-> Str(SubSeq(text, Len(open) + 1, n - Len(shut)))]
        ELSE [threw |-> TRUE, privateKey |-> Undef]

\* if (typeof privateKey === "string" && !privateKey.startsWith("0x"))
\*     privateKey = `0x${privateKey}`
WithPrefix(privateKey) ==
    IF privateKey.t = "string" /\ ~StartsWith(privateKey.s, "0x")
    THEN Str("0x" \o privateKey.s)
    ELSE privateKey

\* the key a call resolved, the file it leaves, and whether it generated
Resolved(privateKey, file, generated) ==
    [ threw |-> FALSE, privateKey |-> privateKey, file |-> file,
      generated |-> generated ]

\* a bootstrap that looks for wallet_data.txt before it looks at PRIVATE_KEY
ResolveKeyFileFirst(envKey, file, fresh) ==
    IF file.exists
    THEN LET p == ParseWalletData(file.text)
         IN  IF p.threw
             THEN [ threw |-> TRUE, privateKey |-> Undef, file |-> file,
                    generated |-> FALSE ]
             ELSE Resolved(WithPrefix(p.privateKey), file, FALSE)
    ELSE IF Truthy(envKey)
    THEN Resolved(WithPrefix(envKey), file, FALSE)
    ELSE Resolved(Str(fresh), File(StringifyWalletData(fresh)), TRUE)

\* lines 25-46 of prepareAgentkitAndWalletProvider: the key of the wallet
\* from PRIVATE_KEY, else from wallet_data.txt, else generated and written
ResolveKey(envKey, file, fresh) ==
    IF Truthy(envKey)
    THEN Resolved(WithPrefix(envKey), file, FALSE)
    ELSE IF file.exists
    THEN LET p == ParseWalletData(file.text)
         IN  IF p.threw
             THEN [ threw |-> TRUE, privateKey |-> Undef, file |-> file,
                    generated |-> FALSE ]
             ELSE Resolved(WithPrefix(p.privateKey), file, FALSE)
    ELSE Resolved(Str(fresh), File(StringifyWalletData(fresh)), TRUE)

\* privateKeyToAccount(privateKey) accepts a 0x-prefixed string of 32 bytes
\* and throws for everything else
IsPrivateKey(privateKey) ==
    /\ privateKey.t = "string"
    /\ StartsWith(privateKey.s, "0x")
    /\ Len(privateKey.s) = 66

\* the userMessage of a request and the text generateText can resolve with
UserMessages == { "hello", "what is my balance?" }

Texts == { "Hi, how can I help?" }

\* a request that has not arrived
NoPost ==
    [ pc |-> "idle", userMessage |-> "", prepared |-> FALSE,
      privateKey |-> "", agent |-> NoAgent, response |-> "", error |-> "" ]

\* POST returns NextResponse.json({ response: text })
Respond(q, text) ==
    post' = [post EXCEPT ![q].pc = "done", ![q].response = text]

\* the catch of POST: NextResponse.json({ error: error.message })
Fail(q, message) ==
    post' = [post EXCEPT ![q].pc = "done", ![q].error = message]

AppInit ==
    /\ network = "base-sepolia"
    /\ facilitatorBaseUrl = Constructor(Undef)
    /\ Idle({1})
    /\ processEnv \in [OPENAI_API_KEY : OpenAiEnv, PRIVATE_KEY : PrivateKeyEnv]
    /\ walletData \in WalletFiles
    /\ agent = NoAgent
    /\ messages = << >>
    /\ post = [q \in {1, 2} |-> NoPost]
    /\ accounts = {}
    /\ written = {}

\* a POST request arrives: the route awaits req.json()
Post(q) ==
    /\ post[q].pc = "idle"
    /\ \E m \in UserMessages :
         post' = [post EXCEPT ![q].pc = "json", ![q].userMessage = m]
    /\ UNCHANGED << handlerVars, processEnv, walletData, agent, messages,
                    accounts, written >>

\* req.json() rejects: the catch of POST
ReqJsonRejects(q) ==
    /\ post[q].pc = "json"
    /\ Fail(q, "Unexpected end of JSON input")
    /\ UNCHANGED << handlerVars, processEnv, walletData, agent, messages,
                    accounts, written >>

\* req.json() resolves and createAgent() runs to its first await.  With agent assigned it returns agent; without
\* OPENAI_API_KEY it throws; otherwise prepareAgentkitAndWalletProvider runs
\* to its await of AgentKit.from, or throws before it
ReqJsonResolves(q) ==
    /\ post[q].pc = "json"
    /\ IF agent.set
       THEN /\ post' = [post EXCEPT ![q].pc = "created", ![q].agent = agent]
            /\ UNCHANGED << walletData, accounts, written >>
       ELSE IF ~Truthy(processEnv.OPENAI_API_KEY)
       THEN /\ Fail(q, "I need an OPENAI_API_KEY in your .env file to power my intelligence.")
            /\ UNCHANGED << walletData, accounts, written >>
       ELSE \E fresh \in GeneratedKeys :
              LET r == ResolveKey(processEnv.PRIVATE_KEY, walletData, fresh)
              IN  /\ walletData' = r.file
                  /\ written' = IF r.generated THEN written \cup {fresh}
                                ELSE written
                  /\ IF r.threw \/ ~IsPrivateKey(r.privateKey)
                     THEN /\ Fail(q, "Failed to initialize agent")
                          /\ UNCHANGED accounts
                     ELSE /\ accounts' = accounts \cup {r.privateKey.s}
                          /\ post' = [post EXCEPT
                                         ![q].pc = "agentkit",
                                         ![q].prepared = TRUE,
                                         ![q].privateKey = r.privateKey.s]
    /\ UNCHANGED << handlerVars, processEnv, agent, messages >>

\* AgentKit.from rejects (the catch of prepareAgentkitAndWalletProvider), or
\* it resolves and the try block of createAgent throws: createAgent rejects
\* and agent stays as it is
AgentKitRejects(q) ==
    /\ post[q].pc = "agentkit"
    /\ Fail(q, "Failed to initialize agent")
    /\ UNCHANGED << handlerVars, processEnv, walletData, agent, messages,
                    accounts, written >>

\* AgentKit.from resolves: createAgent builds a new object, assigns it to
\* agent and returns it
AgentKitResolves(q) ==
    /\ post[q].pc = "agentkit"
    /\ LET made == [set |-> TRUE, by |-> q, key |-> post[q].privateKey]
       IN  /\ agent' = made
           /\ post' = [post EXCEPT ![q].pc = "created", ![q].agent = made]
    /\ UNCHANGED << handlerVars, processEnv, walletData, messages, accounts,
                    written >>

\* await createAgent() resolves: the user message is pushed and generateText
\* is called; generateId() is modelled by the request that drew the id
Created(q) ==
    /\ post[q].pc = "created"
    /\ messages' = Append(messages, [ id |-> q, role |-> "user",
                                       content |-> post[q].userMessage ])
    /\ post' = [post EXCEPT ![q].pc = "generate"]
    /\ UNCHANGED << handlerVars, processEnv, walletData, agent, accounts,
                    written >>

\* generateText rejects: the catch of POST
GenerateRejects(q) ==
    /\ post[q].pc = "generate"
    /\ Fail(q, "Too Many Requests")
    /\ UNCHANGED << handlerVars, processEnv, walletData, agent, messages,
                    accounts, written >>

\* generateText resolves: the reply is pushed and returned
GenerateResolves(q) ==
    /\ post[q].pc = "generate"
    /\ \E text \in Texts :
         /\ messages' = Append(messages, [ id |-> q, role |-> "assistant",
                                            content |-> text ])
         /\ Respond(q, text)
    /\ UNCHANGED << handlerVars, processEnv, walletData, agent, accounts,
                    written >>

\* the process is started again: the module variables agent and messages
\* are new, the requests in flight are gone, wallet_data.txt stays
Restart ==
    /\ agent' = NoAgent
    /\ messages' = << >>
    /\ post' = [q \in Reqs |-> NoPost]
    /\ UNCHANGED << handlerVars, processEnv, walletData, accounts, written >>

\* a step of request q
Serve(q) ==
    \/ Post(q)
    \/ ReqJsonRejects(q)
    \/ ReqJsonResolves(q)
    \/ AgentKitRejects(q)
    \/ AgentKitResolves(q)
    \/ Created(q)
    \/ GenerateRejects(q)
    \/ GenerateResolves(q)

AppNext == (\E q \in Reqs : Serve(q)) \/ Restart

AppSpec == AppInit /\ [][AppNext]_vars

(***************************************************************************)
(* What the claims speak of, read off the log of an invocation.            *)
(***************************************************************************)
\* the positions of the log of invocation i that hold an event of kind op
Events(i, op) == {k \in 1..Len(log[i]) : log[i][k].op = op}

\* the wallet was called
WalletCalls(i) ==
    Events(i, "getNetwork") \cup Events(i, "sendTransaction")
      \cup Events(i, "waitForTransactionReceipt")

\* the first fetch was answered, with status st
InitialStatusIs(i, st) ==
    /\ Len(log[i]) >= 2
    /\ log[i][2].op = "fetch.return"
    /\ log[i][2].resp.status = st

InitialAnswered(i) ==
    Len(log[i]) >= 2 /\ log[i][2].op = "fetch.return"

Done(i) == pc[i] = "done"

\* the two network ids the claims call supported
SupportedIds == {"base-mainnet", "base-sepolia"}

\* C1: sendTransaction is called only in an invocation whose first response
\* had status 402 and whose wallet is on base-mainnet or base-sepolia; in
\* every other invocation no transaction is submitted.
C1_PaymentGated ==
    \A i \in Procs :
        Events(i, "sendTransaction") # {} =>
            /\ InitialStatusIs(i, 402)
            /\ network \in SupportedIds
            /\ \A k \in Events(i, "sendTransaction") : k > 2

\* C1 witness: a transaction was submitted
C1_Witness ==
    \E i \in Procs : Events(i, "sendTransaction") # {}

\* C2: after a first response with a status other than 402, ok or not, the
\* invocation has issued exactly one HTTP call and has made no call on the
\* wallet, up to and including its return.
C2_NoPaymentNoWallet ==
    \A i \in Procs :
        (InitialAnswered(i) /\ ~InitialStatusIs(i, 402)) =>
            /\ Cardinality(Events(i, "fetch")) = 1
            /\ WalletCalls(i) = {}

\* C2 witness: an invocation returned after a 500 that carried payment
\* instructions in its body
C2_Witness ==
    \E i \in Procs :
        /\ Done(i)
        /\ InitialStatusIs(i, 500)
        /\ initialResponse[i].body = BodyFull
        /\ result[i] = RequestFailedText(500, BodyFull)

\* C3 as stated: after a 402, whatever its body, on an unsupported network,
\* no transaction is submitted, no second HTTP call is made and the returned
\* string contains the network id.
C3_Original ==
    \A i \in Procs :
        (Done(i) /\ InitialStatusIs(i, 402) /\ network \notin SupportedIds) =>
            /\ Events(i, "sendTransaction") = {}
            /\ Cardinality(Events(i, "fetch")) = 1
            /\ Includes(result[i], network)

\* the body of the first response was read and is JSON other than null
InstructionsParsed(i) ==
    /\ initialResponse[i].readable
    /\ ~JSONparse(initialResponse[i].body).threw
    /\ ~JSONparse(initialResponse[i].body).value.isNull

\* C3 as amended: after a 402 on an unsupported network no transaction is
\* submitted and no second HTTP call is made, whatever the body; the returned
\* string contains the network id when the body was read and parsed as JSON
\* other than null, and is the generic request error otherwise.
C3_UnsupportedNetwork ==
    \A i \in Procs :
        (InitialStatusIs(i, 402) /\ network \notin SupportedIds) =>
            /\ Events(i, "sendTransaction") = {}
            /\ Cardinality(Events(i, "fetch")) = 1
            /\ Done(i) =>
                 IF InstructionsParsed(i)
                 THEN Includes(result[i], network)
                 ELSE StartsWith(result[i], RequestErrorText(""))

\* C3 witness: a 402 with well-formed instructions on an unsupported network
\* was answered with the text naming the network
C3_Witness ==
    \E i \in Procs :
        /\ Done(i)
        /\ InitialStatusIs(i, 402)
        /\ initialResponse[i].body = BodyFull
        /\ network = "ethereum-mainnet"
        /\ Includes(result[i], "ethereum-mainnet")

\* C4: a second fetch is issued only after sendTransaction returned a hash,
\* waitForTransactionReceipt was called with that hash and returned, in this
\* order; once a wallet call has thrown no second fetch is issued.
C4_RetryAfterReceipt ==
    \A i \in Procs :
        /\ \A k \in Events(i, "fetch") :
             k > 1 =>
               \E a, b, c \in 1..k :
                  /\ a < b /\ b < c /\ c < k
                  /\ log[i][a].op = "sendTransaction.return"
                  /\ log[i][b].op = "waitForTransactionReceipt"
                  /\ log[i][b].hash = log[i][a].hash
                  /\ log[i][c].op = "waitForTransactionReceipt.return"
                  /\ log[i][c].hash = log[i][a].hash
        /\ (Events(i, "sendTransaction.throw") # {}
              \/ Events(i, "waitForTransactionReceipt.throw") # {}) =>
             Cardinality(Events(i, "fetch")) = 1

\* C4 witness: the request was issued a second time
C4_Witness ==
    \E i \in Procs : Cardinality(Events(i, "fetch")) = 2

\* the proof of the payment of invocation i, as the header value
ProofOf(i) ==
    JSONstringify(PaymentProof(paymentTx[i], paymentInfo[i], facilitatorBaseUrl))

\* a request carries the proof of the payment of invocation i
CarriesProof(i, req) ==
    /\ paymentTx[i] # ""
    /\ ProofHeader \in DOMAIN req.headers
    /\ req.headers[ProofHeader] = ProofOf(i)

\* C5 as stated: the URL is requested at most twice; the first request
\* carries no proof of the payment; a second request exists only after the
\* payment was confirmed and carries the proof.
C5_Original ==
    \A i \in Procs :
        /\ Cardinality(Events(i, "fetch")) <= 2
        /\ \A k \in Events(i, "fetch") :
             IF k = 1
             THEN ~CarriesProof(i, log[i][k].req)
             ELSE /\ \E c \in 1..k :
                       log[i][c].op = "waitForTransactionReceipt.return"
                  /\ CarriesProof(i, log[i][k].req)

\* the second fetch was answered and the body of the answer was delivered; an
\* answer whose body cannot be read to its end is a transport failure of
\* the call
RetryAnswered(i) ==
    /\ Cardinality(Events(i, "fetch.return")) = 2
    /\ finalResponse[i].readable

C7_Original ==
    \A i \in Procs :
        (Done(i) /\ Events(i, "sendTransaction.return") # {}) =>
            \A k \in Events(i, "sendTransaction.return") :
                Includes(result[i], log[i][k].hash)

\* the kind of a result text: the text up to its first colon
Kind(text) ==
    LET colons == {k \in 1..Len(text) : CharAt(text, k) = ":"}
    IN  IF colons = {} THEN text
        ELSE SubSeq(text, 1, CHOOSE k \in colons : \A j \in colons : k <= j)

\* a wallet call threw
WalletFailed(i) ==
    Events(i, "sendTransaction.throw")
      \cup Events(i, "waitForTransactionReceipt.throw") # {}

\* an HTTP call threw, or the body of its answer could not be read
TransportFailed(i) ==
    \/ Events(i, "fetch.throw") # {}
    \/ /\ Done(i)
       /\ Events(i, "fetch.return") # {}
       /\ LET last == CHOOSE k \in Events(i, "fetch.return") :
                         \A j \in Events(i, "fetch.return") : j <= k
          IN  ~log[i][last].resp.readable

\* the payment was confirmed and the second fetch was answered, not ok
RefusedAfterPayment(i) ==
    RetryAnswered(i) /\ ~Ok(finalResponse[i].status)

\* C8 as stated: the text returned after a wallet failure is of the kind
\* "payment failed", and neither the text returned after a transport
\* failure of either HTTP call nor the text returned after a refusal that
\* follows a confirmed payment is of that kind.
C8_Original ==
    \A i \in Procs :
        Done(i) =>
            /\ WalletFailed(i) => Kind(result[i]) = "[X] Payment failed:"
            /\ (TransportFailed(i) \/ RefusedAfterPayment(i)) =>
                 Kind(result[i]) # "[X] Payment failed:"

\* the first response is a 402 whose body cannot be read, is no JSON, or is
\* JSON without amount or without recipient
BadInstructions(i) ==
    /\ InitialStatusIs(i, 402)
    /\ LET r == log[i][2].resp
           p == JSONparse(r.body)
       IN  \/ ~r.readable
           \/ p.threw
           \/ p.value.amount = Undef
           \/ p.value.recipient = Undef

\* a text that reports a failure
IsFailureText(text) == StartsWith(text, "[X] ") \/ StartsWith(text, "Error:")

\* C9: after a 402 whose body is no JSON, or lacks amount or recipient,
\* sendTransaction is never called and the invocation returns a failure
\* text.
C9_FailClosed ==
    \A i \in Procs :
        BadInstructions(i) =>
            /\ Events(i, "sendTransaction") = {}
            /\ Done(i) => IsFailureText(result[i])

\* C9 witness: on a supported network, a 402 without amount was answered
\* with the payment failure the encoder raised
C9_Witness ==
    \E i \in Procs :
        /\ Done(i)
        /\ network \in SupportedIds
        /\ InitialStatusIs(i, 402)
        /\ initialResponse[i].body = BodyNoAmount
        /\ result[i] = PaymentFailedText("Cannot convert undefined to a BigInt")

\* C10 as stated: whatever headers the caller gave, the second request has a
\* header X-402-Payment-Proof whose value is the JSON text of the hash
\* sendTransaction returned and of the facilitator of the 402 body, or of
\* the configured default when the body names none.
C10_Original ==
    \A i \in Procs :
        \A k \in Events(i, "fetch") :
            k > 1 =>
              LET req   == log[i][k].req
                  sent  == CHOOSE a \in Events(i, "sendTransaction.return") : TRUE
                  named == JSONparse(log[i][2].resp.body).value.facilitator
                  proof == [ transactionHash |-> log[i][sent].hash,
                             facilitator |-> IF named.t = "string" THEN named.s
                                             ELSE facilitatorBaseUrl ]
              IN  /\ ProofHeader \in DOMAIN req.headers
                  /\ req.headers[ProofHeader] = JSONstringify(proof)

\* the headers of a request other than the proof header
OtherHeaders(req) ==
    [k \in DOMAIN req.headers \ {ProofHeader} |-> req.headers[k]]

\* C11: every request after the first has the URL, the method, the body and
\* every header other than X-402-Payment-Proof of the first request, and adds
\* no other header name than X-402-Payment-Proof.
C11_RetryIsOriginalPlusProof ==
    \A i \in Procs :
        \A k \in Events(i, "fetch") :
            LET first == log[i][1].req
                retry == log[i][k].req
            IN  k > 1 =>
                  /\ retry.url = first.url
                  /\ retry.method = first.method
                  /\ retry.body = first.body
                  /\ OtherHeaders(retry) = OtherHeaders(first)
                  /\ DOMAIN retry.headers
                       = DOMAIN first.headers \cup {ProofHeader}

\* C11 witness: a POST with a body and an Authorization header was retried
\* with the proof header
C11_Witness ==
    \E i \in Procs :
        /\ Cardinality(Events(i, "fetch")) = 2
        /\ log[i][1].req.method = "POST"
        /\ log[i][1].req.body = Str("payload")
        /\ "Authorization" \in DOMAIN log[i][1].req.headers
        /\ \E k \in Events(i, "fetch") :
              k > 1 /\ CarriesProof(i, log[i][k].req)

CaughtText(text) ==
    \/ StartsWith(text, "[X] Payment failed: ")
    \/ StartsWith(text, "[X] Error making x402 request: ")

\* C14: no invocation ends by throwing; an invocation that has finished has
\* returned a string, and after a failure of fetch, of a body reader or of
\* the wallet that string is the text of a catch block.
C14_NeverThrows ==
    \A i \in Procs :
        /\ pc[i] # "threw"
        /\ Done(i) => result[i] # ""
        /\ (Done(i) /\ (TransportFailed(i) \/ WalletFailed(i)))
             => CaughtText(result[i])

\* C14 witness: an invocation returned the text of the outer catch after its
\* 402 body could not be parsed
C14_Witness ==
    \E i \in Procs :
        /\ Done(i)
        /\ initialResponse[i].status = 402
        /\ initialResponse[i].body = BodyHtml
        /\ StartsWith(result[i], "[X] Error making x402 request: ")

\* the stablecoin contracts the claims name for the two supported networks
DefaultStablecoin(networkId) ==
    CASE networkId = "base-mainnet" ->
             "0x833589fCD6eDb6E08f4c7C32D4f71b54bdA02913"
      [] networkId = "base-sepolia" ->
             "0x036CbD53842c5426634e7929541eC2318f3dCF7e"

\* the 402 body of invocation i, as the first response delivered it
BodyOf(i) == JSONparse(log[i][2].resp.body).value

\* the destination the claims name: the token of the body when it gives
\* one, the stablecoin contract of the network otherwise
ExpectedDestination(i) ==
    IF BodyOf(i).token # Undef /\ BodyOf(i).token.s # ""
    THEN BodyOf(i).token.s
    ELSE DefaultStablecoin(network)

\* C15 as stated: every submitted transaction has value 0, goes to the token
\* of the 402 body, or to the stablecoin contract of the network when the
\* body gives no token, and never goes to the recipient of the 402 body.
C15_Original ==
    \A i \in Procs :
        \A k \in Events(i, "sendTransaction") :
            /\ log[i][k].tx.value = 0
            /\ log[i][k].tx.to = ExpectedDestination(i)
            /\ log[i][k].tx.to # BodyOf(i).recipient.s

\* C15 as amended: every submitted transaction has value 0 and goes to the
\* token of the 402 body, or to the stablecoin contract of the network when
\* the body gives no token; it goes to the recipient of the body only when
\* that token, or that contract, is the recipient.
C15_Destination ==
    \A i \in Procs :
        \A k \in Events(i, "sendTransaction") :
            /\ log[i][k].tx.value = 0
            /\ log[i][k].tx.to = ExpectedDestination(i)
            /\ log[i][k].tx.to = BodyOf(i).recipient.s =>
                  \/ BodyOf(i).token = BodyOf(i).recipient
                  \/ DefaultStablecoin(network) = BodyOf(i).recipient.s

\* C15 witness: on base-sepolia a transaction was submitted for a body
\* without token, and it went to the sepolia contract and not to the recipient
C15_Witness ==
    \E i \in Procs :
        \E k \in Events(i, "sendTransaction") :
            /\ network = "base-sepolia"
            /\ BodyOf(i).token = Undef
            /\ log[i][k].tx.to = "0x036CbD53842c5426634e7929541eC2318f3dCF7e"
            /\ log[i][k].tx.to # BodyOf(i).recipient.s

\* the hexadecimal digits
HexDigits ==
    { "0", "1", "2", "3", "4", "5", "6", "7", "8", "9",
      "a", "b", "c", "d", "e", "f", "A", "B", "C", "D", "E", "F" }

\* a payload of transfer(address,uint256): "0x", then the 8 digits of the
\* selector and the 64 digits of each of the two arguments
WellFormedTransfer(data) ==
    /\ Len(data) = 2 + 8 + 64 + 64
    /\ Prefix(data, 2) = "0x"
    /\ \A k \in 3..Len(data) : CharAt(data, k) \in HexDigits

\* C19 as stated: the call data of every submitted transaction is "0x"
\* followed by exactly 136 hexadecimal digits, whatever amount and recipient
\* the 402 body gave.
C19_Original ==
    \A i \in Procs :
        \A k \in Events(i, "sendTransaction") :
            WellFormedTransfer(log[i][k].tx.data)

\* the 32-byte word of each recipient of EncodeRecipients: 24 zeros and the
\* 40 digits of the address, as they were given
RecipientWord(to) ==
    CASE to = "0x1111111111111111111111111111111111111111" ->
             "0000000000000000000000001111111111111111111111111111111111111111"
      [] to = "0x0000000000000000000000000000000000000000" ->
             "0000000000000000000000000000000000000000000000000000000000000000"
      [] to = "0xffffffffffffffffffffffffffffffffffffffff" ->
             "000000000000000000000000ffffffffffffffffffffffffffffffffffffffff"
      [] to = "0xFFFFFFFFFFFFFFFFFFFFFFFFFFFFFFFFFFFFFFFF" ->
             "000000000000000000000000FFFFFFFFFFFFFFFFFFFFFFFFFFFFFFFFFFFFFFFF"
      [] to = "0x833589fCD6eDb6E08f4c7C32D4f71b54bdA02913" ->
             "000000000000000000000000833589fCD6eDb6E08f4c7C32D4f71b54bdA02913"
      [] to = "0x036CbD53842c5426634e7929541eC2318f3dCF7e" ->
             "000000000000000000000000036CbD53842c5426634e7929541eC2318f3dCF7e"
      [] to = "0x0000000000000000000000000000000000000001" ->
             "0000000000000000000000000000000000000000000000000000000000000001"
      [] to = "0xdeadbeef000000000000000000000000cafebabe" ->
             "000000000000000000000000deadbeef000000000000000000000000cafebabe"

\* the 32-byte word of each amount of EncodeAmounts: its value in hexadecimal
\* after the zeros that fill 64 digits
AmountWord(amount) ==
    CASE amount = "0" ->
             "0000000000000000000000000000000000000000000000000000000000000000"
      [] amount = "1" ->
             "0000000000000000000000000000000000000000000000000000000000000001"
      [] amount = "15" ->
             "000000000000000000000000000000000000000000000000000000000000000f"
      [] amount = "16" ->
             "0000000000000000000000000000000000000000000000000000000000000010"
      [] amount = "255" ->
             "00000000000000000000000000000000000000000000000000000000000000ff"
      [] amount = "1000000" ->
             "00000000000000000000000000000000000000000000000000000000000f4240"
      [] amount = "007" ->
             "0000000000000000000000000000000000000000000000000000000000000007"
      [] amount = "9007199254740992" ->
             "0000000000000000000000000000000000000000000000000020000000000000"
      [] amount = "9007199254740993" ->
             "0000000000000000000000000000000000000000000000000020000000000001"
      [] amount = "18446744073709551616" ->
             "0000000000000000000000000000000000000000000000010000000000000000"
      [] amount = "1000000000000000000000000000" ->
             "0000000000000000000000000000000000000000033b2e3c9fd0803ce8000000"
      [] amount = "340282366920938463463374607431768211457" ->
             "0000000000000000000000000000000100000000000000000000000000000001"
      [] amount = "57896044618658097711785492504343953926634992332820282019728792003956564819968" ->
             "8000000000000000000000000000000000000000000000000000000000000000"
      [] amount = "115792089237316195423570985008687907853269984665640564039457584007913129639935" ->
             "ffffffffffffffffffffffffffffffffffffffffffffffffffffffffffffffff"

\* C16: for a 0x-prefixed recipient of 20 bytes and a base-10 amount from 0
\* to 2^256 - 1, encodeERC20Transfer does not throw and returns "0xa9059cbb"
\* followed by the word of the recipient and the exact word of the amount.
C16_ExactEncoding ==
    \A i \in Procs :
        /\ pc[i] # "threw"
        /\ Done(i) =>
             result[i] = "0xa9059cbb"
                           \o RecipientWord(paymentInfo[i].recipient.s)
                           \o AmountWord(paymentInfo[i].amount.s)

\* C16 witness: 2^53 + 1 was encoded for a recipient of mixed case
C16_Witness ==
    \E i \in Procs :
        /\ Done(i)
        /\ paymentInfo[i].amount.s = "9007199254740993"
        /\ paymentInfo[i].recipient.s
             = "0x833589fCD6eDb6E08f4c7C32D4f71b54bdA02913"
        /\ Len(result[i]) = 138

\* the hash sendTransaction returned to invocation i, "" before it did
OwnHash(i) ==
    IF Events(i, "sendTransaction.return") = {} THEN ""
    ELSE log[i][CHOOSE k \in Events(i, "sendTransaction.return") : TRUE].hash

\* the proof built from what invocation i itself was given
OwnProof(i) == PaymentProof(OwnHash(i), BodyOf(i), facilitatorBaseUrl)

\* the string an invocation returns, as a function of its own log: of the
\* last settlement it saw, of its first response and of the hash returned
\* to it
OwnResult(i) ==
    LET n    == Len(log[i])
        last == log[i][n]
    IN  CASE last.op = "fetch.throw" ->
                 IF n = 2 THEN RequestErrorText(last.message)
                 ELSE PaymentFailedText(last.message)
          [] last.op \in {"sendTransaction.throw",
                          "waitForTransactionReceipt.throw"} ->
                 PaymentFailedText(last.message)
          [] last.op = "getNetwork" ->
                 IF network \notin SupportedIds
                 THEN UnsupportedNetworkText(network)
                 ELSE PaymentFailedText(
                          encodeERC20Transfer(BodyOf(i).recipient,
                                              BodyOf(i).amount).message)
          [] last.op = "fetch.return" /\ n = 2 ->
                 LET r == last.resp
                     p == JSONparse(r.body)
                 IN  IF ~r.readable THEN RequestErrorText(BodyReadError)
                     ELSE IF r.status = 402
                     THEN RequestErrorText(
                              IF p.threw THEN p.message
                              ELSE "Cannot destructure property 'amount' of 'paymentInfo' as it is null.")
                     ELSE IF Ok(r.status) THEN NoPaymentText(r.body)
                     ELSE RequestFailedText(r.status, r.body)
          [] last.op = "fetch.return" /\ n > 2 ->
                 LET r == last.resp
                 IN  IF ~r.readable THEN PaymentFailedText(BodyReadError)
                     ELSE IF Ok(r.status)
                     THEN PaymentSuccessText(OwnHash(i), r.body)
                     ELSE PaymentSentText(OwnHash(i), r.status, r.body)

\* C17: in every interleaving of two invocations, each request, each
\* transaction and each wait of an invocation is built from its own
\* arguments, its own first response and the hash returned to it, its result
\* is a function of its own log, and a hash returned to the other invocation
\* alone appears neither in its result nor in its requests.
C17_NoInterference ==
    \A i \in Procs :
        /\ \A k \in Events(i, "fetch") :
             log[i][k].req = IF k = 1 THEN InitialRequest(action[i].args)
                             ELSE RetryRequest(action[i].args, OwnProof(i))
        /\ \A k \in Events(i, "sendTransaction") :
             log[i][k].tx
               = PaymentTransaction(BodyOf(i), network,
                     encodeERC20Transfer(BodyOf(i).recipient,
                                         BodyOf(i).amount).value)
        /\ \A k \in Events(i, "waitForTransactionReceipt") :
             log[i][k].hash = OwnHash(i)
        /\ Done(i) => result[i] = OwnResult(i)
        /\ \A j \in Procs \ {i} :
             OwnHash(j) \notin {"", OwnHash(i)} =>
                 /\ ~Includes(result[i], OwnHash(j))
                 /\ \A k \in Events(i, "fetch") :
                      \A h \in DOMAIN log[i][k].req.headers :
                          ~Includes(log[i][k].req.headers[h], OwnHash(j))

\* C17 witness: two invocations with different arguments paid, were given
\* different hashes, and both returned after their second fetch
C17_Witness ==
    /\ Procs = {1, 2}
    /\ Done(1) /\ Done(2)
    /\ action[1].args # action[2].args
    /\ OwnHash(1) = "0xabc1" /\ OwnHash(2) = "0xdef2"
    /\ result[1] = PaymentSuccessText("0xabc1", "resource")
    /\ result[2] = PaymentSentText("0xdef2", 500, "resource")

\* the returns and the throws of the external calls, as invocation i saw them
Settlements(i) ==
    SelectSeq(log[i],
              LAMBDA e : e.op \in {"fetch.return", "fetch.throw",
                                   "sendTransaction.return",
                                   "sendTransaction.throw",
                                   "waitForTransactionReceipt.return",
                                   "waitForTransactionReceipt.throw"})

\* the calls invocation i made, in order
Calls(i) ==
    SelectSeq(log[i],
              LAMBDA e : e.op \in {"fetch", "getNetwork", "sendTransaction",
                                   "waitForTransactionReceipt"})

\* C20: an invocation of x402_request and an invocation of x402_pay_for_api
\* that were given the same arguments and have seen the same settlements
\* up to the same await have made the same calls in the same order and have
\* returned the same string.
C20_RequestEquivalent ==
    \A i \in Procs, j \in Procs :
        ( /\ action[i].name = "x402_pay_for_api"
          /\ action[j].name = "x402_request"
          /\ action[i].args = action[j].args
          /\ Settlements(i) = Settlements(j)
          /\ pc[i] = pc[j] ) =>
            /\ Calls(i) = Calls(j)
            /\ result[i] = result[j]

\* C20 witness: a POST through x402_request and the same POST through
\* x402_pay_for_api both paid, saw the same settlements and returned
C20_Witness ==
    \E i \in Procs, j \in Procs :
        /\ action[i].name = "x402_pay_for_api"
        /\ action[j].name = "x402_request"
        /\ action[i].args = action[j].args
        /\ action[j].args.method = Str("POST")
        /\ Settlements(i) = Settlements(j)
        /\ Done(i) /\ Done(j)
        /\ result[j] = PaymentSuccessText("0xabc1", "resource")

\* the events invocation i appends in a step
Appended(i) == SubSeq(log'[i], Len(log[i]) + 1, Len(log'[i]))

\* C18: when every awaited call settles, an invocation that was made
\* returns a string in the end; and an invocation that waits for the receipt
\* neither returns nor calls anything before the wait itself has returned or
\* thrown.
C18_Termination ==
    /\ \A i \in {1} : (pc[i] # "idle") ~> (Done(i) /\ result[i] # "")
    /\ [][\A i \in Procs :
             (pc[i] = "receipt"
                /\ (pc'[i] # pc[i] \/ result'[i] # result[i]
                       \/ log'[i] # log[i])) =>
               /\ Appended(i) # << >>
               /\ Head(Appended(i)).op
                    \in {"waitForTransactionReceipt.return",
                         "waitForTransactionReceipt.throw"}]_vars

\* C18 witness: both fetches, sendTransaction and the wait for the receipt
\* returned, and the invocation returned its string
C18_Witness ==
    \E i \in Procs :
        /\ Done(i)
        /\ Cardinality(Events(i, "fetch.return")) = 2
        /\ Events(i, "sendTransaction.return") # {}
        /\ Events(i, "waitForTransactionReceipt.return") # {}
        /\ result[i] # ""

\* the requests whose createAgent call ran prepareAgentkitAndWalletProvider
\* and has not failed
Initialising == {q \in Reqs : post[q].prepared /\ post[q].error = ""}

\* the requests whose createAgent call returned an agent
GotAgent == {q \in Reqs : post[q].agent.set}

\* C21 as stated: since the start of the process, at most one createAgent
\* call that has not failed ran prepareAgentkitAndWalletProvider, all calls
\* that returned have returned the same object, that object is the cached
\* one, and after failures alone the cache is unset.
C21_Original ==
    /\ Cardinality(Initialising) <= 1
    /\ \A p \in GotAgent, q \in GotAgent : post[p].agent = post[q].agent
    /\ \A q \in GotAgent : post[q].agent = agent
    /\ GotAgent = {} => ~agent.set

\* no request is in flight
AllCompleted == \A q \in Reqs : post[q].pc \in {"idle", "done"}

\* the history is a sequence of pairs: a user message and, right after it,
\* the reply of the assistant that was generated for the same request
Paired(history) ==
    /\ Len(history) % 2 = 0
    /\ \A k \in 1..Len(history) :
         IF k % 2 = 1
         THEN /\ history[k].role = "user"
              /\ k < Len(history)
              /\ history[k + 1].role = "assistant"
              /\ history[k + 1].id = history[k].id
         ELSE history[k].role = "assistant"

\* C22 as stated: when no request is in flight, the shared history is a
\* sequence of pairs, each user message followed at once by the reply
\* generated for it.
C22_Original == AllCompleted => Paired(messages)

\* PRIVATE_KEY is set in the environment: it is a string that is not empty
EnvKeySet == processEnv.PRIVATE_KEY \notin {Undef, Str("")}

\* PRIVATE_KEY with the prefix 0x
EnvKey ==
    IF Prefix(processEnv.PRIVATE_KEY.s, 2) = "0x"
    THEN processEnv.PRIVATE_KEY.s
    ELSE "0x" \o processEnv.PRIVATE_KEY.s

\* C23: with PRIVATE_KEY set, every wallet is made from it, whatever
\* wallet_data.txt holds, and nothing is written.  With PRIVATE_KEY unset, at
\* most one key is ever written and at most one key is ever used, over all
\* calls and all starts of the process; a written key is the key in use and
\* is in the file as soon as the call that generated it suspends, and every
\* call that has a key has the key the file holds.  Every key in use starts
\* with 0x.
C23_StableWallet ==
    /\ EnvKeySet => accounts \subseteq {EnvKey} /\ written = {}
    /\ ~EnvKeySet =>
         /\ Cardinality(written) <= 1
         /\ Cardinality(accounts) <= 1
         /\ written # {} => accounts = written
         /\ \A k \in accounts :
              /\ walletData.exists
              /\ Includes(walletData.text, SliceFrom(k, 2))
    /\ \A q \in Reqs : post[q].prepared => post[q].privateKey \in accounts
    /\ \A k \in accounts : Prefix(k, 2) = "0x"

\* C23 witness: with PRIVATE_KEY unset and no file, one call generated and
\* wrote a key, and another call, made while the first was suspended, uses
\* the same key
C23_Witness ==
    /\ processEnv.PRIVATE_KEY = Undef
    /\ \E k \in GeneratedKeys :
         /\ written = {k}
         /\ walletData = File(StringifyWalletData(k))
         /\ \A q \in Reqs : post[q].prepared /\ post[q].privateKey = k
    /\ Cardinality(Reqs) = 2


=============================================================================
